---- MODULE Spec2Model ----
(***************************************************************************)
(* A model of the interactive shell of src/myshell.c: the read / parse /   *)
(* dispatch loop of main, the tokenizer parse_line, the builtins, the      *)
(* fork / exec / wait protocol of execute_external and the child processes *)
(* it creates.                                                             *)
(*                                                                         *)
(* A C string is a sequence of one-character strings; the NULL pointer is  *)
(* the one-element sequence <<"NULL">>, which is no C string.              *)
(***************************************************************************)
EXTENDS Integers, Sequences, FiniteSets, TLC

\* ------------------------------------------------------------------------
\* Bounds of the model
\* ------------------------------------------------------------------------

\* longest line of the exhaustive tokenizer inputs
MaxLen == 3
\* number of child processes the system lets the shell create
MaxChildren == 2
\* number of times one foreground wait is interrupted by a signal
MaxEintr == 1
\* highest index of an allocation of parse_line that is made to fail
MaxFail == 2
\* number of outstanding allocations at which memory is exhausted
MaxHeap == 3

\* ------------------------------------------------------------------------
\* Program constants and C strings
\* ------------------------------------------------------------------------

MAX_ARGS == 64

NULL == <<"NULL">>

SP == " "
TAB == "\t"
CR == "\r"
LF == "\n"

\* the delimiter string of the first strtok_r call
FirstDelim == {TAB, CR, LF}
\* the delimiter string of the following strtok_r calls
NextDelim == {SP, TAB, CR, LF}

S_amp == <<"&">>
S_cd == <<"c", "d">>
S_exit == <<"e", "x", "i", "t">>
S_help == <<"h", "e", "l", "p">>
S_pwd == <<"p", "w", "d">>
S_echo == <<"e", "c", "h", "o">>
S_cmd == <<"c", "m", "d">>
S_hi == <<"h", "i">>
S_abc == <<"a", "b", "c">>
S_7 == <<"7">>
S_a == <<"a">>
S_root == <<"/">>
S_h == <<"/", "h">>
S_x == <<"/", "x">>
S_nonexistent == <<"/", "n", "o", "n", "e", "x", "i", "s", "t", "e", "n", "t">>

\* ------------------------------------------------------------------------
\* strtok_r, atoi
\* ------------------------------------------------------------------------

\* s + strspn(s, delim), from index i: the first index at or after i whose
\* character is not in delim (Len(s)+1 is the terminating NUL)
RECURSIVE SkipDelims(_, _, _)
SkipDelims(s, i, delim) ==
    IF i <= Len(s) /\ s[i] \in delim THEN SkipDelims(s, i + 1, delim) ELSE i

\* s + strcspn(s, delim), from index i
RECURSIVE SkipToken(_, _, _)
SkipToken(s, i, delim) ==
    IF i <= Len(s) /\ s[i] \notin delim THEN SkipToken(s, i + 1, delim) ELSE i

\* strtok_r on the string s with the scan position save (the first call
\* passes the string itself, position 1): the next token, or NULL, and the
\* position saved for the next call
strtok_r(s, save, delim) ==
    LET b == SkipDelims(s, save, delim)
        e == SkipToken(s, b, delim)
    IN  IF b > Len(s)
        THEN [token |-> NULL, save |-> b]
        ELSE [token |-> SubSeq(s, b, e - 1),
              save |-> IF e > Len(s) THEN e ELSE e + 1]

IsDigit(ch) == ch \in {"0", "1", "2", "3", "4", "5", "6", "7", "8", "9"}

DigitVal(ch) ==
    CASE ch = "0" -> 0 [] ch = "1" -> 1 [] ch = "2" -> 2 [] ch = "3" -> 3
      [] ch = "4" -> 4 [] ch = "5" -> 5 [] ch = "6" -> 6 [] ch = "7" -> 7
      [] ch = "8" -> 8 [] ch = "9" -> 9

RECURSIVE AtoiDigits(_, _, _)
AtoiDigits(s, i, acc) ==
    IF i <= Len(s) /\ IsDigit(s[i])
    THEN AtoiDigits(s, i + 1, acc * 10 + DigitVal(s[i]))
    ELSE acc

\* the characters isspace accepts
Spaces == {SP, TAB, LF, CR, "\f"}

\* atoi: leading white space, an optional sign, then the digits; 0 when the
\* string starts with no number
atoi(s) ==
    LET b == SkipDelims(s, 1, Spaces)
    IN  IF b <= Len(s) /\ s[b] = "-" THEN 0 - AtoiDigits(s, b + 1, 0)
        ELSE IF b <= Len(s) /\ s[b] = "+" THEN AtoiDigits(s, b + 1, 0)
        ELSE AtoiDigits(s, b, 0)

\* ------------------------------------------------------------------------
\* Command, parse_line
\* ------------------------------------------------------------------------

\* the failure value of parse_line
NULL_Command == [null |-> TRUE]

\* calloc(1, sizeof(Command)), then background = false and argc = 0
NewCommand ==
    [args |-> [i \in 0 .. MAX_ARGS - 1 |-> NULL], argc |-> 0, background |-> FALSE]

\* cmd->argc < MAX_ARGS - 1, the capacity test of the loop of parse_line
has_room_one_less(cmd) == cmd.argc < MAX_ARGS - 2
has_room_one_more(cmd) == cmd.argc < MAX_ARGS
has_room(cmd) == cmd.argc < MAX_ARGS - 1

\* The loop of parse_line and the statement after it, which stores the
\* NULL that ends the argument vector. tk is the result of the last
\* strtok_r call; fail is the index of the allocation that fails (1 is the
\* first strdup), or -1. A turn of the loop stores the copy of the token,
\* counts it and calls strtok_r again. The result is the Command as
\* parse_line leaves the loop, and whether it leaves it because strdup has
\* failed.
RECURSIVE parse_loop(_, _, _, _)
parse_loop(line, tk, cmd, fail) ==
    IF tk.token # NULL /\ has_room(cmd)
    THEN IF tk.token = S_amp
         THEN [cmd |-> [cmd EXCEPT !.background = TRUE, !.args[cmd.argc] = NULL],
               failed |-> FALSE]
         ELSE IF fail = cmd.argc + 1
              THEN [cmd |-> cmd, failed |-> TRUE]
              ELSE parse_loop(line, strtok_r(line, tk.save, NextDelim),
                              [cmd EXCEPT !.args[cmd.argc] = tk.token,
                                          !.argc = cmd.argc + 1], fail)
    ELSE [cmd |-> [cmd EXCEPT !.args[cmd.argc] = NULL], failed |-> FALSE]

\* parse_line(line) up to its return statement, when allocation fail fails
\* (0 is the calloc of the command, which leaves no Command at all)
parse_run(line, fail) ==
    IF fail = 0
    THEN [cmd |-> NULL_Command, failed |-> TRUE]
    ELSE CHOOSE r \in
           { parse_loop(line, t, c, fail) :
               t \in {strtok_r(line, 1, FirstDelim)}, c \in {NewCommand} } : TRUE

\* a parse_line that returns its Command although a strdup has failed
parse_return_partial(r) == r.cmd

\* what parse_line returns: the Command, or NULL after a failed allocation
parse_return(r) == IF r.failed THEN NULL_Command ELSE r.cmd

parse_line(line, fail) == parse_return(parse_run(line, fail))

\* The allocations of the shell that are not freed: Command containers and
\* copies of tokens.
EmptyHeap == [commands |-> 0, strings |-> 0]

\* the heap after the calloc of the Command c and the strdup of its
\* argc arguments
allocated(h, c) ==
    [commands |-> h.commands + 1, strings |-> h.strings + c.argc]

\* free_command(cmd) releases every argument string of the Command and
\* the container
free_command(h, c) ==
    [commands |-> h.commands - 1, strings |-> h.strings - c.argc]

\* free(cmd) releases the container
free(h) == [h EXCEPT !.commands = h.commands - 1]

\* the heap when parse_line has returned
heap_after_parse(h, r) ==
    IF r.cmd = NULL_Command THEN h
    ELSE IF r.failed THEN free_command(allocated(h, r.cmd), r.cmd)
    ELSE allocated(h, r.cmd)

\* the argument list args[0 .. argc-1] of a Command, as a sequence
ArgList(cmd) == [i \in 1 .. cmd.argc |-> cmd.args[i - 1]]

\* ------------------------------------------------------------------------
\* The environment: input lines, directories, programs, wait statuses
\* ------------------------------------------------------------------------

EXIT_SUCCESS == 0
EXIT_FAILURE == 1

\* the directories that exist; chdir to any other path fails
ExistingDirs == {S_root, S_h}

\* the values of the HOME environment variable: unset, a directory, a path
\* that names no directory
HomeValues == {NULL, S_h, S_x}

\* the names execvp finds on the search path
Programs == {S_echo, S_cmd, S_a}

\* the exit status a parent sees of a process that called exit(code)
ProcessStatus(code) == code % 256

\* the wait status of a child that called exit(code)
ExitedStatus(code) == (code % 256) * 256
\* the wait status of a child that signal sig terminated
SignaledStatus(sig) == sig

WIFEXITED(status) == status % 128 = 0
WEXITSTATUS(status) == (status \div 256) % 256

\* the ways a program started by the shell ends: exit(0), exit(3), SIGKILL
TermStatuses == {ExitedStatus(0), ExitedStatus(3), SignaledStatus(9)}

\* the lines "echo hi", "a  b   c", "cmd &", "exit 7", "exit abc" and
\* "cd /nonexistent"
L_echo_hi == S_echo \o <<SP>> \o S_hi
L_a_b_c == <<"a", SP, SP, "b", SP, SP, SP, "c">>
L_cmd_amp == S_cmd \o <<SP>> \o S_amp
L_exit_7 == S_exit \o <<SP>> \o S_7
L_exit_abc == S_exit \o <<SP>> \o S_abc
L_cd_nonexistent == S_cd \o <<SP>> \o S_nonexistent

\* the lines typed at the prompt, without their newline: the six above,
\* the same with a tab for the space, blank lines and the builtins
Contents ==
    { <<>>, <<SP>>, <<TAB>>,
      L_echo_hi, L_a_b_c, L_cmd_amp, L_exit_7, L_exit_abc, L_cd_nonexistent,
      S_echo \o <<TAB>> \o S_hi,
      S_cmd \o <<TAB>> \o S_amp,
      S_exit \o <<TAB>> \o S_7,
      S_exit \o <<TAB>> \o S_abc,
      S_cd \o <<TAB>> \o S_nonexistent,
      S_cd \o <<TAB>> \o S_h,
      S_cd, S_exit, S_pwd, S_help }

\* what getline stores: the line with its newline, or the last line of the
\* input when no newline ends it
RawLines == {l \o <<LF>> : l \in Contents} \cup (Contents \ {<<>>})

\* the characters of the exhaustive tokenizer inputs
Alphabet == {"a", "&", SP, TAB, LF}

RECURSIVE StringsUpTo(_)
StringsUpTo(n) ==
    IF n = 0 THEN {<<>>}
    ELSE LET shorter == StringsUpTo(n - 1)
         IN  shorter \cup {Append(s, ch) : s \in shorter, ch \in Alphabet}

\* s repeated n times
RECURSIVE Repeat(_, _)
Repeat(s, n) == IF n = 0 THEN <<>> ELSE s \o Repeat(s, n - 1)

\* the line of MAX_ARGS + 2 tokens "a" with a tab between them
L_many == S_a \o Repeat(<<TAB>> \o S_a, MAX_ARGS + 1)
\* the lines of MAX_ARGS - 1 and of MAX_ARGS - 2 tokens "a", then "&"
L_63_amp == S_a \o Repeat(<<TAB>> \o S_a, MAX_ARGS - 2) \o <<TAB>> \o S_amp
L_62_amp == S_a \o Repeat(<<TAB>> \o S_a, MAX_ARGS - 3) \o <<TAB>> \o S_amp

\* the lines parse_line is applied to on its own
ParseInputs ==
    StringsUpTo(MaxLen) \cup (Contents \ {<<>>}) \cup {L_many, L_63_amp, L_62_amp}

\* the allocation of parse_line that fails: none (-1), the calloc (0), or
\* the strdup of a token
FailPoints == (0 - 1) .. MaxFail

\* ------------------------------------------------------------------------
\* State
\* ------------------------------------------------------------------------

VARIABLES
    pc,            \* where main is: "prompt", "parse", "exec", "wait", "free",
                   \* "done"
    line,          \* main's line: the string read_line returned, or NULL
    input,         \* the line read by the current iteration (history)
    cmd,           \* main's cmd: the Command of the current iteration
    cwd,           \* the working directory of the shell process
    home,          \* getenv("HOME")
    procs,         \* the children: pid -> [st, bg, found, status]
    child_exited,  \* the flag the SIGCHLD handler sets
    fpid,          \* pid of execute_external while it waits
    eintr,         \* interruptions of the current wait
    iter,          \* what the current iteration has done (history)
    heap,          \* the allocations of the shell that are not freed
    exitCode       \* the exit status of the shell, once pc = "done"

vars == <<pc, line, input, cmd, cwd, home, procs, child_exited, fpid, eintr,
          iter, heap, exitCode>>

Pids == 1 .. MaxChildren

\* st is "none" (no such child), "forked" (before its execvp), "running"
\* (its program runs), "zombie" (terminated, not reaped) or "reaped"; bg is
\* the background flag of its Command; found tells, until its execvp,
\* whether the search path holds args[0]; status is its wait status
NoProc == [st |-> "none", bg |-> FALSE, found |-> FALSE, status |-> 0]

\* the history of an iteration that has only read its line: the return
\* values are sequences, empty while the function has not returned
NewIter(dir, h) ==
    [builtin |-> <<>>,      \* <<r>> once execute_builtin has returned r
     external |-> FALSE,    \* execute_external has been called
     child |-> 0,           \* the pid fork returned to the parent, if any
     chdir |-> FALSE,       \* chdir has been called
     waits |-> 0,           \* calls of waitpid
     werrno |-> "0",        \* errno of the last waitpid
     wstatus |-> <<>>,      \* <<s>> once waitpid has stored the status s
     ret |-> <<>>,          \* <<r>> once execute_command has returned r
     nomem |-> FALSE,       \* an allocation of parse_line has failed
     copied |-> 0,          \* the token copies it had made when one failed
     heap0 |-> h,           \* the heap when the line was read
     cwd0 |-> dir]          \* the working directory when the line was read

Init ==
    /\ pc = "prompt"
    /\ line = NULL
    /\ input = <<>>
    /\ cmd = NULL_Command
    /\ cwd = S_root
    /\ home \in HomeValues
    /\ procs = [p \in Pids |-> NoProc]
    /\ child_exited = 0
    /\ fpid = 0
    /\ eintr = 0
    /\ iter = NewIter(S_root, EmptyHeap)
    /\ heap = EmptyHeap
    /\ exitCode = 0

\* ------------------------------------------------------------------------
\* main: read_line
\* ------------------------------------------------------------------------

\* read_line on what getline stored: the trailing newline is removed
read_line(raw) ==
    IF Len(raw) > 0 /\ raw[Len(raw)] = LF THEN SubSeq(raw, 1, Len(raw) - 1) ELSE raw

\* a main that reports end of input as a failure
main_return_failure == EXIT_FAILURE

\* return EXIT_SUCCESS, the last statement of main
main_return == EXIT_SUCCESS

\* getline reports end of input: read_line returns NULL, the loop breaks
\* and main returns
ReadEOF ==
    /\ pc = "prompt"
    /\ pc' = "done"
    /\ exitCode' = ProcessStatus(main_return)
    /\ UNCHANGED <<line, input, cmd, cwd, home, procs, child_exited, fpid,
                   eintr, iter, heap>>

\* a line is read; an empty one is freed and the loop continues at once
ReadLine ==
    /\ pc = "prompt"
    /\ \E raw \in RawLines :
         LET l == read_line(raw)
         IN  /\ input' = l
             /\ IF Len(l) = 0
                THEN pc' = "prompt" /\ line' = NULL
                ELSE pc' = "parse" /\ line' = l
    /\ iter' = NewIter(cwd, heap)
    /\ UNCHANGED <<cmd, cwd, home, procs, child_exited, fpid, eintr, heap,
                   exitCode>>

\* ------------------------------------------------------------------------
\* main: parse_line, free(line), the cmd == NULL and argc > 0 tests
\* ------------------------------------------------------------------------

\* a main that calls execute_command for every Command
dispatches_always(c) == TRUE

\* if (cmd->argc > 0) execute_command(cmd)
dispatches(c) == c.argc > 0

\* calloc fails once MaxHeap allocations are outstanding
ParseLine ==
    /\ pc = "parse"
    /\ \E fail \in FailPoints :
         \E r \in {parse_run(line, fail)} :
           \E c \in {parse_return(r)} :
             /\ heap.commands + heap.strings >= MaxHeap => fail = 0
             /\ cmd' = c
             /\ heap' = heap_after_parse(heap, r)
             /\ iter' = [iter EXCEPT !.nomem = r.failed,
                                     !.copied = IF r.failed /\ r.cmd # NULL_Command
                                                THEN r.cmd.argc ELSE 0]
             /\ pc' = IF c = NULL_Command THEN "prompt"
                      ELSE IF dispatches(c) THEN "exec"
                      ELSE "free"
             /\ input' = IF c = NULL_Command THEN <<>> ELSE input
    /\ line' = NULL
    /\ UNCHANGED <<cwd, home, procs, child_exited, fpid, eintr, exitCode>>

\* ------------------------------------------------------------------------
\* execute_builtin
\* ------------------------------------------------------------------------

\* the not-a-builtin value of execute_builtin
NOT_BUILTIN == 0 - 1

\* cd_path without the HOME default
cd_path_no_home(c, homeenv) == IF c.argc > 1 THEN c.args[1] ELSE NULL

\* const char *path = (cmd->argc > 1) ? cmd->args[1] : getenv("HOME")
cd_path(c, homeenv) == IF c.argc > 1 THEN c.args[1] ELSE homeenv

\* chdir(path) == 0: the path names a directory and access is not denied
chdir_ok(path, denied) == path \in ExistingDirs /\ ~denied

\* int exit_code = (cmd->argc > 1) ? atoi(cmd->args[1]) : 0
exit_code(c) == IF c.argc > 1 THEN atoi(c.args[1]) ELSE 0

\* a pwd that reports the failure of getcwd with -1
pwd_result_sentinel(getcwd_fails) == IF getcwd_fails THEN NOT_BUILTIN ELSE 0

\* the value of the pwd builtin: 0 when getcwd succeeds, 1 when it fails
pwd_result(getcwd_fails) == IF getcwd_fails THEN 1 ELSE 0

\* What execute_builtin does with the Command c in the directory dir:
\* result is its return value, cwd the working directory it leaves, exits
\* whether it called exit (with code), chdir whether it called chdir.
\* denied and getcwd_fails are the answers of the file system.
execute_builtin(c, dir, homeenv, denied, getcwd_fails) ==
    LET command == c.args[0]
        stay(r) == [result |-> r, cwd |-> dir, exits |-> FALSE, code |-> 0,
                    chdir |-> FALSE]
    IN  IF command = S_cd
        THEN LET path == cd_path(c, homeenv)
             IN  IF path = NULL
                 THEN stay(1)
                 ELSE IF ~chdir_ok(path, denied)
                      THEN [stay(1) EXCEPT !.chdir = TRUE]
                      ELSE [stay(0) EXCEPT !.chdir = TRUE, !.cwd = path]
        ELSE IF command = S_exit
        THEN [stay(0) EXCEPT !.exits = TRUE, !.code = exit_code(c)]
        ELSE IF command = S_help
        THEN stay(0)
        ELSE IF command = S_pwd
        THEN stay(pwd_result(getcwd_fails))
        ELSE stay(NOT_BUILTIN)

\* execute_command calls execute_builtin, which recognises the command and
\* returns: execute_command returns its result to main, which frees cmd and
\* loops
Builtin ==
    /\ pc = "exec"
    /\ cmd.argc # 0
    /\ \E denied \in BOOLEAN, getcwd_fails \in BOOLEAN :
         LET b == execute_builtin(cmd, cwd, home, denied, getcwd_fails)
         IN  /\ b.result # NOT_BUILTIN
             /\ ~b.exits
             /\ cwd' = b.cwd
             /\ iter' = [iter EXCEPT !.builtin = <<b.result>>,
                                     !.chdir = b.chdir,
                                     !.ret = <<b.result>>]
    /\ pc' = "free"
    /\ UNCHANGED <<line, input, cmd, home, procs, child_exited, fpid, eintr,
                   heap, exitCode>>

\* the exit builtin: exit(exit_code) ends the shell process
Exit ==
    /\ pc = "exec"
    /\ cmd.argc # 0
    /\ LET b == execute_builtin(cmd, cwd, home, FALSE, FALSE)
       IN  /\ b.exits
           /\ exitCode' = ProcessStatus(b.code)
    /\ pc' = "done"
    /\ UNCHANGED <<line, input, cmd, cwd, home, procs, child_exited, fpid,
                   eintr, iter, heap>>

\* ------------------------------------------------------------------------
\* execute_external
\* ------------------------------------------------------------------------

\* the pids fork can return to the parent: -1, or the pid of a new child
\* while the system allows one more
FreePids == {p \in Pids : procs[p].st = "none"}
ForkResults ==
    {0 - 1} \cup (IF FreePids = {} THEN {}
                  ELSE {CHOOSE p \in FreePids : \A q \in FreePids : p <= q})

\* after_fork waiting for a background child as for a foreground one
after_fork_always_waits(c, pid) ==
    IF pid < 0
    THEN [returns |-> TRUE, exits |-> FALSE, waits |-> FALSE, ret |-> 1]
    ELSE [returns |-> FALSE, exits |-> FALSE, waits |-> TRUE, ret |-> 0]

\* after_fork ending the shell when fork fails
after_fork_fatal(c, pid) ==
    IF pid < 0
    THEN [returns |-> FALSE, exits |-> TRUE, waits |-> FALSE, ret |-> 1]
    ELSE IF ~c.background
         THEN [returns |-> FALSE, exits |-> FALSE, waits |-> TRUE, ret |-> 0]
         ELSE [returns |-> TRUE, exits |-> FALSE, waits |-> FALSE, ret |-> 0]

\* execute_external in the parent, from the return of fork to its first
\* waitpid or its return: waits tells whether it goes on to wait for pid
after_fork(c, pid) ==
    IF pid < 0
    THEN [returns |-> TRUE, exits |-> FALSE, waits |-> FALSE, ret |-> 1]
    ELSE IF ~c.background
         THEN [returns |-> FALSE, exits |-> FALSE, waits |-> TRUE, ret |-> 0]
         ELSE [returns |-> TRUE, exits |-> FALSE, waits |-> FALSE, ret |-> 0]

\* execute_builtin has returned -1: execute_command calls execute_external,
\* which forks. The child starts with a copy of the Command.
External ==
    /\ pc = "exec"
    /\ cmd.argc # 0
    /\ \E denied \in BOOLEAN, getcwd_fails \in BOOLEAN :
         execute_builtin(cmd, cwd, home, denied, getcwd_fails).result = NOT_BUILTIN
    /\ \E pid \in ForkResults :
         LET a == after_fork(cmd, pid)
         IN  /\ procs' = IF pid > 0
                         THEN [procs EXCEPT ![pid] =
                                 [st |-> "forked", bg |-> cmd.background,
                                  found |-> cmd.args[0] \in Programs,
                                  status |-> 0]]
                         ELSE procs
             /\ iter' = [iter EXCEPT !.builtin = <<NOT_BUILTIN>>,
                                     !.external = TRUE,
                                     !.child = IF pid > 0 THEN pid ELSE 0,
                                     !.ret = IF a.returns THEN <<a.ret>> ELSE <<>>]
             /\ pc' = IF a.exits THEN "done"
                      ELSE IF a.waits THEN "wait" ELSE "free"
             /\ exitCode' = IF a.exits THEN ProcessStatus(a.ret) ELSE exitCode
             /\ fpid' = IF a.waits THEN pid ELSE fpid
             /\ eintr' = 0
    /\ UNCHANGED <<line, input, cmd, cwd, home, child_exited, heap>>

\* a waitpid that collects any terminated child, as waitpid(-1, &status, 0)
WaitResults_any(pid) ==
    {[wait_result |-> q, errno |-> "0", status |-> procs[q].status] :
        q \in {q \in Pids : procs[q].st = "zombie"}}
    \cup {[wait_result |-> 0 - 1, errno |-> "ECHILD", status |-> 0]}

\* the outcomes of one waitpid(pid, &status, 0): the child has terminated
\* and is reaped; a signal interrupts the call while the child has not
\* terminated; the call fails for another reason
WaitResults(pid) ==
    (IF procs[pid].st = "zombie"
     THEN {[wait_result |-> pid, errno |-> "0", status |-> procs[pid].status]}
     ELSE IF eintr < MaxEintr
          THEN {[wait_result |-> 0 - 1, errno |-> "EINTR", status |-> 0]}
          ELSE {})
    \cup {[wait_result |-> 0 - 1, errno |-> "ECHILD", status |-> 0]}

\* a wait loop that does not look at errno
wait_again_never(w) == FALSE

\* } while (wait_result == -1 && errno == EINTR)
wait_again(w) == w.wait_result = 0 - 1 /\ w.errno = "EINTR"

\* a wait_return that reports the signal of a child it terminated, as
\* 128 + the signal number
wait_return_signal(w) ==
    IF w.wait_result = 0 - 1
    THEN 1
    ELSE IF WIFEXITED(w.status) THEN WEXITSTATUS(w.status)
         ELSE 128 + (w.status % 128)

\* the value execute_external returns after the wait loop
wait_return(w) ==
    IF w.wait_result = 0 - 1
    THEN 1
    ELSE IF WIFEXITED(w.status) THEN WEXITSTATUS(w.status) ELSE 0

\* one waitpid of the foreground wait loop
Wait ==
    /\ pc = "wait"
    /\ \E w \in WaitResults(fpid) :
         /\ procs' = IF w.wait_result # 0 - 1
                     THEN [procs EXCEPT ![w.wait_result] =
                             [st |-> "reaped", bg |-> FALSE, found |-> FALSE,
                              status |-> 0]]
                     ELSE procs
         /\ IF wait_again(w)
            THEN /\ pc' = "wait"
                 /\ fpid' = fpid
                 /\ eintr' = eintr + 1
                 /\ iter' = [iter EXCEPT !.waits = iter.waits + 1,
                                         !.werrno = w.errno]
            ELSE /\ pc' = "free"
                 /\ fpid' = 0
                 /\ eintr' = 0
                 /\ iter' = [iter EXCEPT !.waits = iter.waits + 1,
                                         !.werrno = w.errno,
                                         !.wstatus = IF w.wait_result # 0 - 1
                                                     THEN <<w.status>>
                                                     ELSE <<>>,
                                         !.ret = <<wait_return(w)>>]
    /\ UNCHANGED <<line, input, cmd, cwd, home, child_exited, heap, exitCode>>

\* ------------------------------------------------------------------------
\* main: free(cmd), and back to the prompt
\* ------------------------------------------------------------------------

FreeCmd ==
    /\ pc = "free"
    /\ pc' = "prompt"
    /\ cmd' = NULL_Command
    /\ input' = <<>>
    /\ heap' = free(heap)
    /\ iter' = NewIter(cwd, free(heap))
    /\ UNCHANGED <<line, cwd, home, procs, child_exited, fpid, eintr, exitCode>>

\* ------------------------------------------------------------------------
\* The children and the SIGCHLD handler
\* ------------------------------------------------------------------------

\* the handler of SIGCHLD: it only records that a child has exited
sigchld_handler(flag) == 1

\* a child that returns from execute_external when execvp has failed and
\* goes on in the loop of main
child_after_exec_returns(found) ==
    IF found
    THEN [st |-> "running", status |-> 0]
    ELSE [st |-> "shell", status |-> 0]

\* the child after execvp(cmd->args[0], cmd->args): the program has
\* replaced it, or execvp has returned and the child has printed its
\* message and called exit(EXIT_FAILURE)
child_after_exec(found) ==
    IF found
    THEN [st |-> "running", status |-> 0]
    ELSE [st |-> "zombie", status |-> ExitedStatus(EXIT_FAILURE)]

\* the child calls execvp; the parent is sent SIGCHLD when the child ends
ChildExec(p) ==
    /\ pc # "done"
    /\ procs[p].st = "forked"
    /\ LET c == child_after_exec(procs[p].found)
       IN  /\ procs' = [procs EXCEPT ![p].st = c.st, ![p].status = c.status,
                                     ![p].found = FALSE]
           /\ child_exited' = IF c.st = "zombie"
                              THEN sigchld_handler(child_exited)
                              ELSE child_exited
    /\ UNCHANGED <<pc, line, input, cmd, cwd, home, fpid, eintr, iter, heap,
                   exitCode>>

\* the program the child runs terminates
ChildTerminate(p) ==
    /\ pc # "done"
    /\ procs[p].st = "running"
    /\ \E s \in TermStatuses :
         procs' = [procs EXCEPT ![p].st = "zombie", ![p].status = s]
    /\ child_exited' = sigchld_handler(child_exited)
    /\ UNCHANGED <<pc, line, input, cmd, cwd, home, fpid, eintr, iter, heap,
                   exitCode>>

\* ------------------------------------------------------------------------
\* Specifications
\* ------------------------------------------------------------------------

\* a step of the shell process
Main ==
    ReadEOF \/ ReadLine \/ ParseLine \/ Builtin \/ Exit \/ External \/ Wait \/ FreeCmd

Next ==
    \/ ReadEOF
    \/ ReadLine
    \/ ParseLine
    \/ Builtin
    \/ Exit
    \/ External
    \/ Wait
    \/ FreeCmd
    \/ \E p \in Pids : ChildExec(p)
    \/ \E p \in Pids : ChildTerminate(p)

Spec == Init /\ [][Next]_vars

\* The shell is scheduled while it can take a step, and so is every child.
FairSpec ==
    /\ Spec
    /\ WF_vars(Main)
    /\ \A p \in Pids : WF_vars(ChildExec(p)) /\ WF_vars(ChildTerminate(p))

\* parse_line on its own, applied to every line of ParseInputs
InitParse ==
    /\ pc = "parse"
    /\ line \in ParseInputs
    /\ input = line
    /\ cmd = NULL_Command
    /\ cwd = S_root
    /\ home = NULL
    /\ procs = [p \in Pids |-> NoProc]
    /\ child_exited = 0
    /\ fpid = 0
    /\ eintr = 0
    /\ iter = NewIter(S_root, EmptyHeap)
    /\ heap = EmptyHeap
    /\ exitCode = 0

SpecParse == InitParse /\ [][ParseLine]_vars

\* one iteration of the loop of main on every line of ParseInputs, from
\* parse_line to free(cmd)
NextLine ==
    \/ ParseLine
    \/ Builtin
    \/ Exit
    \/ External
    \/ Wait
    \/ FreeCmd
    \/ \E p \in Pids : ChildExec(p)
    \/ \E p \in Pids : ChildTerminate(p)

SpecLine == InitParse /\ [][NextLine]_vars

\* ------------------------------------------------------------------------
\* The tokenizer as documented
\* ------------------------------------------------------------------------

\* the whitespace characters: space, tab, carriage return, newline
Whitespace == {SP, TAB, CR, LF}

\* the length of the longest prefix of s without a whitespace character
RECURSIVE RunLength(_)
RunLength(s) ==
    IF s = <<>> \/ Head(s) \in Whitespace THEN 0 ELSE 1 + RunLength(Tail(s))

\* the length of the longest prefix of s of whitespace characters
RECURSIVE BlankLength(_)
BlankLength(s) ==
    IF s = <<>> \/ Head(s) \notin Whitespace THEN 0 ELSE 1 + BlankLength(Tail(s))

\* the maximal runs of non-whitespace characters of s, in order
RECURSIVE Runs(_)
Runs(s) ==
    LET b == BlankLength(s)
        n == RunLength(SubSeq(s, b + 1, Len(s)))
    IN  IF b = Len(s) THEN <<>>
        ELSE <<SubSeq(s, b + 1, b + n)>> \o Runs(SubSeq(s, b + n + 1, Len(s)))

\* the tokens of s before its first "&" token (all of them without one)
RECURSIVE BeforeAmp(_)
BeforeAmp(toks) ==
    IF toks = <<>> \/ Head(toks) = S_amp THEN <<>>
    ELSE <<Head(toks)>> \o BeforeAmp(Tail(toks))

HasAmpToken(s) == \E i \in 1 .. Len(Runs(s)) : Runs(s)[i] = S_amp

WhitespaceOnly(s) == \A i \in 1 .. Len(s) : s[i] \in Whitespace

\* parse_line has returned a Command for the line input
Parsed == pc # "parse" /\ input # <<>> /\ cmd # NULL_Command

\* ------------------------------------------------------------------------
\* Claims
\* ------------------------------------------------------------------------

\* C1: for every line with fewer than 64 tokens and no "&" token, the
\* argument list parse_line produces is exactly the sequence of maximal
\* runs of non-whitespace characters of the line, and background is false
\* ("echo hi" gives ["echo","hi"], "a  b   c" gives ["a","b","c"]).
C1_TokensAreWhitespaceRuns ==
    (Parsed /\ ~HasAmpToken(input) /\ Len(Runs(input)) < MAX_ARGS)
        => (ArgList(cmd) = Runs(input) /\ cmd.background = FALSE)

\* C2: a line that is empty or holds only whitespace dispatches nothing:
\* execute_builtin and execute_external are not called, no child is
\* created and the working directory is unchanged.
C2_BlankLineDispatchesNothing ==
    WhitespaceOnly(input)
        => /\ iter.builtin = <<>>
           /\ ~iter.external
           /\ iter.child = 0
           /\ cwd = iter.cwd0

\* C3: when a token of the line is exactly "&", parse_line stops at it:
\* background is true and the argument list holds the tokens before it
\* and nothing after; without an "&" token background is false
\* ("cmd &" gives ["cmd"] with background true).
C3_AmpersandStopsParsing ==
    (Parsed /\ Len(BeforeAmp(Runs(input))) < MAX_ARGS - 1)
        => /\ cmd.background = HasAmpToken(input)
           /\ HasAmpToken(input) => ArgList(cmd) = BeforeAmp(Runs(input))

\* C4: every background child that terminates is eventually reaped while
\* the shell keeps running: none stays a zombie for ever.
C4_BackgroundChildrenReaped ==
    \A p \in Pids :
        (procs[p].st = "zombie" /\ procs[p].bg)
            ~> (procs[p].st = "reaped" \/ pc = "done")

\* C5: for a background command whose fork succeeded, execute_external
\* calls no waitpid and returns 0 to its caller whatever the child is
\* doing; the child is not reaped by it.
C5_BackgroundReturnsWithoutWait ==
    (cmd # NULL_Command /\ cmd.background /\ iter.child # 0)
        => /\ pc = "free"
           /\ iter.ret = <<0>>
           /\ iter.waits = 0
           /\ procs[iter.child].st \in {"forked", "running", "zombie"}

\* the next prompt is reached while a background child is still running
C5_Witness ==
    /\ pc = "free"
    /\ cmd.background
    /\ iter.child # 0
    /\ procs[iter.child].st = "running"

\* the foreground command of the iteration has a child
Foreground == cmd # NULL_Command /\ ~cmd.background /\ iter.child # 0

\* C6: for a foreground command, execute_external has not returned while
\* its wait goes on; a waitpid that fails with EINTR is followed by another
\* waitpid; it returns either after a waitpid that reaped its child, and
\* then its value is the exit status of a child that exited, or after a
\* waitpid that failed for another reason, and then its value is 1.
C6_ForegroundWaitsForChild ==
    Foreground
        => /\ pc = "wait" => iter.ret = <<>>
           /\ pc = "free" =>
                /\ iter.waits >= 1
                /\ iter.werrno # "EINTR"
                /\ IF iter.wstatus # <<>>
                   THEN /\ procs[iter.child].st = "reaped"
                        /\ iter.werrno = "0"
                        /\ WIFEXITED(iter.wstatus[1])
                              => iter.ret = <<WEXITSTATUS(iter.wstatus[1])>>
                   ELSE /\ procs[iter.child].st # "reaped"
                        /\ iter.ret = <<1>>

\* a foreground wait was interrupted, retried, and returned exit status 3
C6_Witness ==
    /\ Foreground
    /\ pc = "free"
    /\ iter.waits >= 2
    /\ iter.wstatus = <<ExitedStatus(3)>>
    /\ iter.ret = <<3>>

\* C7: the line "exit n" ends the shell with exit code n ("exit 7" with 7);
\* "exit" and "exit abc" end it with code 0.
C7_ExitLineTerminates ==
    (Parsed /\ pc # "exec" /\ input \in {S_exit, L_exit_7, L_exit_abc})
        => /\ pc = "done"
           /\ exitCode = (IF input = L_exit_7 THEN 7 ELSE 0)

\* C8: for the line "cd /nonexistent" the cd builtin returns 1, the
\* working directory is unchanged and the shell continues.
C8_FailedCdReturnsOne ==
    (Parsed /\ pc # "exec" /\ input = L_cd_nonexistent)
        => /\ pc = "free"
           /\ iter.builtin = <<1>>
           /\ iter.ret = <<1>>
           /\ cwd = iter.cwd0

\* the line "cd" has been executed
CdDone == Parsed /\ pc = "free" /\ input = S_cd

\* C9 as stated: with HOME unset "cd" returns 1 without calling chdir and
\* leaves the working directory; with HOME set it changes the working
\* directory to the value of HOME.
C9_CdHomeAsStated ==
    CdDone
        => IF home = NULL
           THEN iter.builtin = <<1>> /\ ~iter.chdir /\ cwd = iter.cwd0
           ELSE cwd = home

\* C9, amended: with HOME unset "cd" returns 1 without calling chdir and
\* leaves the working directory; with HOME set it calls chdir on the value
\* of HOME, and either chdir succeeds, cd returns 0 and the working
\* directory is the value of HOME, or chdir fails, cd returns 1 and the
\* working directory is unchanged; chdir fails when HOME names no directory.
C9_CdHome ==
    CdDone
        => IF home = NULL
           THEN iter.builtin = <<1>> /\ ~iter.chdir /\ cwd = iter.cwd0
           ELSE /\ iter.chdir
                /\ \/ iter.builtin = <<0>> /\ cwd = home
                   \/ iter.builtin = <<1>> /\ cwd = iter.cwd0
                /\ home \notin ExistingDirs => iter.builtin = <<1>>

\* "cd" with HOME unset has returned 1 without a chdir
C9_Witness ==
    CdDone /\ home = NULL /\ iter.builtin = <<1>> /\ ~iter.chdir

\* C10: the shell process ends only by the exit builtin or by end of
\* input: every other step, a failing builtin, fork, wait or allocation
\* included, leaves main in its loop.
C10_OnlyExitOrEofTerminates ==
    [][(pc # "done" /\ pc' = "done")
          => \/ pc = "prompt"
             \/ pc = "exec" /\ cmd.args[0] = S_exit]_vars

\* fork has failed, execute_external has returned 1 and main goes on
C10_Witness ==
    /\ pc = "free"
    /\ iter.external
    /\ iter.child = 0
    /\ iter.ret = <<1>>

\* C11: every Command created by parse_line is fully released by the end of
\* the iteration that created it: whenever the shell is at its prompt no
\* Command container and no copy of a token is outstanding.
C11_NothingOutstandingAtPrompt ==
    pc = "prompt" => heap = EmptyHeap

\* C12: when execvp fails in a child, that step ends the child, and only
\* the child, with a nonzero exit status: the child does not go on in the
\* loop of main, and nothing of the shell changes in the step (its position,
\* line, Command, working directory, wait and heap), nor any other child.
C12_FailedExecEndsOnlyChild ==
    [][\A p \in Pids :
         (procs[p].st = "forked" /\ ~procs[p].found /\ procs'[p] # procs[p])
            => /\ procs'[p].st = "zombie"
               /\ WIFEXITED(procs'[p].status)
               /\ WEXITSTATUS(procs'[p].status) # 0
               /\ \A q \in Pids \ {p} : procs'[q] = procs[q]
               /\ UNCHANGED <<pc, line, input, cmd, cwd, home, fpid, eintr,
                              iter, heap, exitCode>>]_vars

\* the shell has received the status of a child whose execvp failed
C12_Witness ==
    /\ pc = "free"
    /\ iter.child # 0
    /\ cmd.args[0] \notin Programs
    /\ iter.wstatus = <<ExitedStatus(EXIT_FAILURE)>>
    /\ iter.ret = <<1>>

\* C13: when read_line reports end of input the loop of main stops: the
\* step parses and dispatches nothing (no Command, child, directory or heap
\* changes), the shell ends with status 0, which is also the status of an
\* "exit" without argument, and a shell that has ended takes no more steps.
C13_EndOfInputExitsZero ==
    [][/\ (pc = "prompt" /\ pc' = "done")
            => /\ exitCode' = 0
               /\ UNCHANGED <<line, cmd, cwd, procs, iter, heap>>
       /\ (pc = "exec" /\ pc' = "done" /\ cmd.argc = 1) => exitCode' = 0
       /\ pc = "done" => pc' = "done"]_vars

\* the shell has ended on end of input after it has run a command
C13_Witness ==
    /\ pc = "done"
    /\ cmd = NULL_Command
    /\ exitCode = 0
    /\ \E p \in Pids : procs[p].st = "reaped"

\* C14: a child is reaped only when it has terminated and has not been
\* reaped before, and only by the waitpid of the foreground wait on its own
\* pid: no step reaps a background child or a child other than the one
\* waited for, a reaped child is never reaped again, and while
\* execute_external waits its child has not been reaped by anything else.
C14_OneReapPerChild ==
    [][/\ \A p \in Pids :
            /\ (procs[p].st # "reaped" /\ procs'[p].st = "reaped")
                  => /\ procs[p].st = "zombie"
                     /\ ~procs[p].bg
                     /\ pc = "wait"
                     /\ fpid = p
                     /\ iter'.wstatus = <<procs[p].status>>
            /\ procs[p].st = "reaped" => procs'[p] = procs[p]
       /\ pc = "wait" => procs[fpid].st \in {"forked", "running", "zombie"}]_vars

\* the foreground child has been reaped while a background child that has
\* terminated is left alone
C14_Witness ==
    /\ pc = "free"
    /\ iter.child # 0
    /\ procs[iter.child].st = "reaped"
    /\ \E q \in Pids : procs[q].st = "zombie" /\ procs[q].bg

\* the names of the builtins
Builtins == {S_cd, S_exit, S_pwd, S_help}

\* C15: execute_builtin returns -1 if and only if args[0] is none of cd,
\* exit, pwd and help, and every other value it returns is 0 or 1;
\* execute_external is called exactly when execute_builtin has returned -1,
\* and never before it has returned, so no builtin creates a child.
C15_SentinelIffNotBuiltin ==
    /\ iter.builtin = <<>> => ~iter.external /\ iter.child = 0
    /\ (cmd # NULL_Command /\ cmd.argc > 0 /\ pc \in {"wait", "free"})
          => iter.builtin # <<>>
    /\ iter.builtin # <<>>
          => /\ iter.builtin[1] \in {NOT_BUILTIN, 0, 1}
             /\ iter.builtin[1] = NOT_BUILTIN <=> cmd.args[0] \notin Builtins
             /\ iter.external <=> iter.builtin[1] = NOT_BUILTIN
             /\ iter.child # 0 => iter.builtin[1] = NOT_BUILTIN

\* pwd has failed and returned 1, and no child exists
C15_Witness ==
    /\ pc = "free"
    /\ cmd.args[0] = S_pwd
    /\ iter.builtin = <<1>>
    /\ ~iter.external
    /\ \A p \in Pids : procs[p].st = "none"

\* nothing of the Command has been dispatched
NotDispatched ==
    /\ pc \notin {"exec", "wait"}
    /\ iter.builtin = <<>>
    /\ ~iter.external
    /\ iter.child = 0

\* execvp is never called with an empty argument vector
ExecHasArgs ==
    (iter.external \/ iter.child # 0) => cmd.argc > 0 /\ cmd.args[0] # NULL

\* C16 as stated: the Command parse_line returns has argc = 0 only when
\* the line is empty or holds nothing but whitespace; a Command with
\* argc = 0 is never dispatched, and execvp never gets an empty vector.
C16_EmptyOnlyForBlankLine ==
    /\ (Parsed /\ cmd.argc = 0) => WhitespaceOnly(input) /\ NotDispatched
    /\ ExecHasArgs

\* C16, amended: the Command parse_line returns has argc = 0 only when
\* the line holds nothing but whitespace or when its first token is "&",
\* and then background is true; a Command with argc = 0 is never
\* dispatched, and execvp never gets an empty vector.
C16_EmptyCommand ==
    /\ (Parsed /\ cmd.argc = 0)
          => /\ \/ WhitespaceOnly(input)
                \/ Runs(input)[1] = S_amp /\ cmd.background
             /\ NotDispatched
    /\ ExecHasArgs

\* the line "&" has given a Command with argc = 0, which main has freed
\* without dispatching it
C16_Witness ==
    /\ Parsed
    /\ input = S_amp
    /\ cmd.argc = 0
    /\ cmd.background
    /\ pc = "free"

\* C17: for every line, the Command parse_line returns has
\* 0 <= argc <= MAX_ARGS - 1, args[0 .. argc-1] are not NULL, and args[argc]
\* is NULL and inside the array; of the line of MAX_ARGS + 2 tokens "a" the
\* first MAX_ARGS - 1 are kept as copies and the others are dropped, and
\* parse_line returns NULL only when an allocation has failed.
C17_ArgsBoundedAndTerminated ==
    /\ Parsed
          => /\ cmd.argc \in 0 .. MAX_ARGS - 1
             /\ \A i \in 0 .. cmd.argc - 1 : cmd.args[i] # NULL
             /\ cmd.argc \in DOMAIN cmd.args
             /\ cmd.args[cmd.argc] = NULL
    /\ (Parsed /\ input = L_many)
          => ArgList(cmd) = [i \in 1 .. MAX_ARGS - 1 |-> S_a]
    /\ (pc # "parse" /\ cmd = NULL_Command) => iter.nomem

\* the line of MAX_ARGS + 2 tokens has given a Command of MAX_ARGS - 1
\* arguments
C17_Witness ==
    /\ Parsed
    /\ input = L_many
    /\ cmd.argc = MAX_ARGS - 1
    /\ cmd.args[MAX_ARGS - 1] = NULL

\* C18: when the calloc or a strdup of parse_line fails, parse_line
\* returns NULL with everything it had allocated released, the heap being
\* as it was when the line was read, and main goes to its next prompt
\* without dispatching anything: no builtin, no child, no change of
\* directory. (The shell is at that prompt, or has read the end of input
\* there.)
C18_AllocationFailureIsNoCommand ==
    iter.nomem
        => /\ pc = "prompt" \/ (pc = "done" /\ exitCode = EXIT_SUCCESS)
           /\ cmd = NULL_Command
           /\ line = NULL
           /\ heap = iter.heap0
           /\ iter.builtin = <<>>
           /\ ~iter.external
           /\ iter.child = 0
           /\ cwd = iter.cwd0

\* the strdup of the second token has failed: the first copy and the
\* container have been released and main is at its prompt
C18_Witness ==
    /\ iter.nomem
    /\ iter.copied = 1
    /\ pc = "prompt"
    /\ heap = iter.heap0

\* C19: parse_line looks for "&" only while fewer than MAX_ARGS - 1
\* tokens are stored. Of the line of MAX_ARGS - 1 tokens followed by "&"
\* all the tokens are stored and background stays false: the command runs
\* in the foreground, and execute_external returns only after a waitpid.
\* After MAX_ARGS - 2 tokens the "&" is seen and background is true.
C19_AmpAfterCapacityIsForeground ==
    /\ (Parsed /\ input = L_63_amp)
          => /\ ~cmd.background
             /\ cmd.argc = MAX_ARGS - 1
             /\ iter.child # 0
                   => pc = "wait" \/ (pc = "free" /\ iter.waits >= 1)
    /\ (Parsed /\ input = L_62_amp)
          => cmd.background /\ cmd.argc = MAX_ARGS - 2

\* the command of the line of MAX_ARGS - 1 tokens and "&" has been waited
\* for and its child reaped
C19_Witness ==
    /\ Parsed
    /\ input = L_63_amp
    /\ pc = "free"
    /\ iter.waits >= 1
    /\ procs[iter.child].st = "reaped"

\* C20: when the foreground wait has collected a child that a signal
\* terminated, execute_external returns 0, as it does for a child that
\* exited with 0 and for a background launch; it returns a nonzero value
\* only when fork failed, when waitpid failed, or when the child exited
\* normally with that nonzero exit status.
C20_SignaledChildReturnsZero ==
    /\ (Foreground /\ pc = "free" /\ iter.wstatus # <<>>
           /\ ~WIFEXITED(iter.wstatus[1]))
          => iter.ret = <<0>>
    /\ (iter.external /\ iter.ret # <<>> /\ iter.ret[1] # 0)
          => \/ iter.child = 0
             \/ iter.waits >= 1 /\ iter.wstatus = <<>>
             \/ /\ iter.wstatus # <<>>
                /\ WIFEXITED(iter.wstatus[1])
                /\ WEXITSTATUS(iter.wstatus[1]) = iter.ret[1]

\* the foreground child was killed by a signal and execute_external has
\* returned 0
C20_Witness ==
    /\ Foreground
    /\ pc = "free"
    /\ iter.wstatus = <<SignaledStatus(9)>>
    /\ iter.ret = <<0>>

====
